---- MODULE Spec2Model ----
(***************************************************************************)
(* Model of pokemon-meta-calc: the multiplier resolver and matchup scorer  *)
(* of main.py and the three Gurobi team optimizers (team_build.py,         *)
(* team_build_pool.py, team_build_for.py).                                 *)
(*                                                                         *)
(* Floats are fixed-point integers: the float f is the integer f * Scale.  *)
(* Strings are sequences of one-character strings.                         *)
(***************************************************************************)
EXTENDS Integers, Sequences, FiniteSets, TLC

VARIABLES
    value,              \* main.py: argument of parse_number
    parsed,             \* main.py: what parse_number returned
    ppc,                \* position of the parse_number call
    df,                 \* main.py: the candidate table read from the CSV
    all_matchups_data,  \* main.py: (A, B) -> Matchup_Score
    meta_scores,        \* main.py: A -> sum of its matchup scores
    mpc,                \* position of rank_pokemon_meta
    script,             \* which optimizer script runs: "team", "pool" or "for"
    scores,             \* team_build*.py: (i, j) -> Matchup_Score, from the CSV
    team_size,          \* team_build*.py: argument team_size
    num_solutions_to_find,  \* team_build_for.py: argument
    no_names,           \* the names of the x[name] == 0 constraints
    yes_names,          \* the names of the x[name] == 1 constraints
    cuts,               \* team_build_for.py: the teams of the cut constraints added to m
    sol_num,            \* team_build_for.py: loop counter
    all_teams_found,    \* team_build_for.py: the list that is returned
    solves,             \* one record for every m.optimize() that ran
    printed,            \* one record for every team printed
    result,             \* what optimize_pokemon_team returned
    opc                 \* position of optimize_pokemon_team

parseVars == <<value, parsed, ppc>>
metaVars == <<df, all_matchups_data, meta_scores, mpc>>
inputVars == <<script, scores, team_size, num_solutions_to_find, no_names, yes_names>>
optVars == <<inputVars, cuts, sol_num, all_teams_found, solves, printed, result, opc>>

vars == <<parseVars, metaVars, optVars>>

----------------------------------------------------------------------------
(* Bounds *)

MaxLen == 3         \* longest string handed to parse_number
MaxTeamSize == 4    \* largest team_size asked for
MaxSolutions == 3   \* largest num_solutions_to_find asked for

----------------------------------------------------------------------------
(* Fixed-point floats *)

RECURSIVE Pow10(_)
Pow10(n) == IF n = 0 THEN 1 ELSE 10 * Pow10(n - 1)

Scale == Pow10(MaxLen)

One == Scale                    \* 1.0
Two == 2 * Scale                \* 2
Half == Scale \div 2            \* 0.5
PosInf == 1000000 * Scale       \* float('inf')
NegInf == 0 - PosInf            \* float('-inf')

IsFinite(v) == v # PosInf /\ v # NegInf

----------------------------------------------------------------------------
(* main.py, parse_number *)

Chars == {"0", "2", "5", ",", ".", "-", "i", "n", "f"}

IsDigit(c) == c \in {"0", "1", "2", "3", "4", "5", "6", "7", "8", "9"}

DigitVal(c) ==
    CASE c = "0" -> 0 [] c = "1" -> 1 [] c = "2" -> 2 [] c = "3" -> 3
      [] c = "4" -> 4 [] c = "5" -> 5 [] c = "6" -> 6 [] c = "7" -> 7
      [] c = "8" -> 8 [] c = "9" -> 9

\* A cell of the table: a missing cell (NaN), a string, or a float.
NaNCell == [kind |-> "nan", s |-> <<>>, v |-> 0]
StrCell(s) == [kind |-> "str", s |-> s, v |-> 0]
NumCell(v) == [kind |-> "num", s |-> <<>>, v |-> v]

\* pd.isna(value)
isna(val) == val.kind = "nan"

\* value.replace(',', '.') without the separator conversion
replace_Keep(s) == s

\* value.replace(',', '.')
replace(s) == [i \in 1..Len(s) |-> IF s[i] = "," THEN "." ELSE s[i]]

\* The run of digits of s that starts at position i, read left to right.
RECURSIVE ScanDigits(_, _, _)
ScanDigits(s, i, acc) ==
    IF i <= Len(s) /\ IsDigit(s[i])
    THEN ScanDigits(s, i + 1, [n |-> acc.n * 10 + DigitVal(s[i]), d |-> acc.d + 1])
    ELSE [pos |-> i, n |-> acc.n, d |-> acc.d]

\* float(s) for a string: [ok |-> FALSE] stands for ValueError.
float_str(s) ==
    LET neg   == Len(s) > 0 /\ s[1] = "-"
        start == IF neg THEN 2 ELSE 1
        sign  == IF neg THEN 0 - 1 ELSE 1
        ip    == ScanDigits(s, start, [n |-> 0, d |-> 0])
        dot   == ip.pos <= Len(s) /\ s[ip.pos] = "."
        fp    == IF dot THEN ScanDigits(s, ip.pos + 1, [n |-> 0, d |-> 0])
                        ELSE [pos |-> ip.pos, n |-> 0, d |-> 0]
    IN  IF SubSeq(s, start, Len(s)) = <<"i", "n", "f">>
        THEN [ok |-> TRUE, v |-> sign * PosInf]
        ELSE IF fp.pos = Len(s) + 1 /\ ip.d + fp.d > 0
        THEN [ok |-> TRUE, v |-> sign * (ip.n * Scale + (fp.n * Scale) \div Pow10(fp.d))]
        ELSE [ok |-> FALSE, v |-> 0]

\* float(value)
float(val) == IF val.kind = "str" THEN float_str(val.s) ELSE [ok |-> TRUE, v |-> val.v]

parse_number(val) ==
    IF isna(val) THEN One
    ELSE LET v2 == IF val.kind = "str" THEN StrCell(replace(val.s)) ELSE val
             r  == float(v2)
         IN  IF r.ok THEN r.v ELSE One

RECURSIVE StringsUpTo(_)
StringsUpTo(n) ==
    IF n = 0 THEN {<<>>}
    ELSE LET shorter == StringsUpTo(n - 1)
         IN  shorter \cup {Append(s, c) : s \in {t \in shorter : Len(t) = n - 1}, c \in Chars}

NumValues == {0 - Two, 0, Half, One, Two, PosInf}

RawValues == {NaNCell} \cup {StrCell(s) : s \in StringsUpTo(MaxLen)}
                \cup {NumCell(v) : v \in NumValues}

NoValue == "none"

ParseNumber ==
    /\ ppc = "call"
    /\ parsed' = parse_number(value)
    /\ ppc' = "return"
    /\ UNCHANGED <<value, metaVars, optVars>>

----------------------------------------------------------------------------
(* main.py, rank_pokemon_meta *)

\* The type columns of the table (a part of the 18 of the source).
type_columns == {"fire", "water"}

\* A missing type2 cell.
NaNType == "NaN"

pd_notna(t) == t # NaNType

\* The rows of the table.
Index == {0, 1}

\* The multiplier cells that occur in the tables.
Cells == {NaNCell, StrCell(<<"0", ",", "5">>), StrCell(<<"2">>),
          StrCell(<<"f">>), StrCell(<<"-", "2">>)}

Rows == [name : {"A", "B"}, type1 : type_columns,
         type2 : type_columns \cup {NaNType}, profile : [type_columns -> Cells]]

\* defensive_profile.get(t, 1.0)
get(profile, t) == IF t \in DOMAIN profile THEN profile[t] ELSE NumCell(One)

\* Python's min(a, b) in the place of max(a, b)
max_Min(a, b) == IF b < a THEN b ELSE a

\* Python's max(a, b)
max(a, b) == IF b > a THEN b ELSE a

\* off_mult_2 when the secondary type is left out of the comparison
second_mult_Omit(profile, t1, t2) ==
    IF pd_notna(t2) THEN parse_number(get(profile, t2))
    ELSE parse_number(get(profile, t1))

\* off_mult_2 / def_mult_2: 1.0 unless the secondary type is present
second_mult(profile, t1, t2) ==
    IF pd_notna(t2) THEN parse_number(get(profile, t2)) ELSE One

\* best_offense
best_offense(row_A, row_B) ==
    LET off_mult_1 == parse_number(get(row_B.profile, row_A.type1))
        off_mult_2 == second_mult(row_B.profile, row_A.type1, row_A.type2)
    IN  max(off_mult_1, off_mult_2)

\* offensive_points with the thresholds taken strictly
offensive_points_Strict(row_A, row_B) ==
    LET b == best_offense(row_A, row_B)
    IN  IF b > Two THEN 1 ELSE IF b < Half THEN 0 - 1 ELSE 0

offensive_points(row_A, row_B) ==
    LET b == best_offense(row_A, row_B)
    IN  IF b >= Two THEN 1 ELSE IF b <= Half THEN 0 - 1 ELSE 0

\* worst_weakness
worst_weakness(row_A, row_B) ==
    LET def_mult_1 == parse_number(get(row_A.profile, row_B.type1))
        def_mult_2 == second_mult(row_A.profile, row_B.type1, row_B.type2)
    IN  max(def_mult_1, def_mult_2)

defensive_points(row_A, row_B) ==
    LET w == worst_weakness(row_A, row_B)
    IN  IF w >= Two THEN 0 - 1 ELSE IF w <= Half THEN 1 ELSE 0

\* individual_score with the defensive term counted twice
individual_score_Double(row_A, row_B) ==
    offensive_points(row_A, row_B) + 2 * defensive_points(row_A, row_B)

individual_score(row_A, row_B) ==
    offensive_points(row_A, row_B) + defensive_points(row_A, row_B)

MaxOf(S) == CHOOSE m \in S : \A x \in S : m >= x

Pairs == {p \in Index \X Index : p[1] # p[2]}

RECURSIVE SumOver(_, _)
SumOver(S, f) ==
    IF S = {} THEN 0
    ELSE LET x == CHOOSE e \in S : TRUE
         IN  f[x] + SumOver(S \ {x}, f)

\* The two nested loops over the rows, the diagonal skipped.
RankPokemonMeta ==
    /\ mpc = "call"
    /\ all_matchups_data' = [p \in Pairs |-> individual_score(df[p[1]], df[p[2]])]
    /\ meta_scores' = [a \in Index |->
            SumOver({p \in Pairs : p[1] = a}, all_matchups_data')]
    /\ mpc' = "return"
    /\ UNCHANGED <<df, parseVars, optVars>>

----------------------------------------------------------------------------
(* team_build.py, team_build_pool.py, team_build_for.py: the Gurobi model *)

\* list(df['Pokemon_A'].unique())
pokemon_list == {"Oshawott", "Snivy", "Purrloin"}

M_NEG == -1000

\* scores.get((i, j), 0) with the sentinel as default
s_ij_Sentinel(i, j) == IF <<i, j>> \in DOMAIN scores THEN scores[<<i, j>>] ELSE M_NEG

\* scores.get((i, j), 0): the CSV has no row for i = j
s_ij(i, j) == IF <<i, j>> \in DOMAIN scores THEN scores[<<i, j>>] ELSE 0

\* The indicator constraints: z[i, j] is s_ij when x[i] = 1 and M_NEG when x[i] = 0.
z(x, i, j) == IF i \in x THEN s_ij(i, j) ELSE M_NEG

\* The max constraint: y[j] is the maximum of z[i, j] over all i.
y(x, j) == MaxOf({z(x, i, j) : i \in pokemon_list})

\* The objective: the sum of y[j] over all j.
ObjVal(x) == SumOver(pokemon_list, [j \in pokemon_list |-> y(x, j)])

\* The TeamSize constraint, dropped
TeamSize_Any(x) == TRUE

\* The TeamSize constraint
TeamSize(x) == Cardinality(x) = team_size

\* The x[name] == 0 constraints, dropped
No_Names_Ignored(x) == TRUE

\* The x[name] == 0 constraints
No_Names(x) == \A name \in no_names : name \notin x

\* The x[name] == 1 constraints
Yes_Names(x) == \A name \in yes_names : name \in x

\* The cut constraints, only the last team cut
Cut_Solutions_Last(x) ==
    Len(all_teams_found) = 0
        \/ Cardinality(all_teams_found[Len(all_teams_found)] \cap x) <= team_size - 1

\* The cut constraints: at most team_size - 1 members of a cut team.
Cut_Solutions(x) == \A team \in cuts : Cardinality(team \cap x) <= team_size - 1

\* The assignments of x that satisfy the constraints of m.
Feasible == {x \in SUBSET pokemon_list :
                TeamSize(x) /\ No_Names(x) /\ Yes_Names(x) /\ Cut_Solutions(x)}

\* The optimum with the objective sense GRB.MINIMIZE
Best_Minimize == {x \in Feasible : \A other \in Feasible : ObjVal(x) <= ObjVal(other)}

\* The optimum of the objective, sense GRB.MAXIMIZE
Best == {x \in Feasible : \A other \in Feasible : ObjVal(x) >= ObjVal(other)}

NoX == {}

Solve(status, SolCount, x) ==
    [status |-> status, SolCount |-> SolCount, x |-> x,
     ObjVal |-> IF SolCount > 0 THEN ObjVal(x) ELSE 0]

\* m.optimize() with a TimeLimit: the search ends with a proof (OPTIMAL,
\* INFEASIBLE) or at the time limit, with or without an incumbent.
Optimize ==
    {Solve("OPTIMAL", 1, x) : x \in Best}
        \cup {Solve("TIME_LIMIT", 1, x) : x \in Feasible}
        \cup {Solve("TIME_LIMIT", 0, NoX)}
        \cup (IF Feasible = {} THEN {Solve("INFEASIBLE", 0, NoX)} ELSE {})

\* The message printed for m.status, every status reported as proven
Report_AlwaysOptimal(status) == "PROVEN_OPTIMAL"

\* The message printed for m.status
Report(status) ==
    IF status = "OPTIMAL" THEN "PROVEN_OPTIMAL"
    ELSE IF status = "TIME_LIMIT" THEN "TIME_LIMITED_BEST"
    ELSE "OTHER"

\* team = [i for i in pokemon_list if x[i].X > 0.5]
Team(x) == {i \in pokemon_list : i \in x}

None == [kind |-> "None", team |-> {}, teams |-> <<>>]
ReturnTeam(team) == [kind |-> "team", team |-> team, teams |-> <<>>]
ReturnList(teams) == [kind |-> "list", team |-> {}, teams |-> teams]
NotReturned == [kind |-> "running", team |-> {}, teams |-> <<>>]

Printed(status, team, score) == [report |-> Report(status), team |-> team, score |-> score]

\* team_build.py: one search, the team returned when there is a solution.
OptimizeTeam ==
    /\ script = "team"
    /\ opc = "call"
    /\ \E m \in Optimize :
        /\ solves' = Append(solves, m)
        /\ IF m.SolCount > 0
           THEN /\ printed' = Append(printed, Printed(m.status, Team(m.x), m.ObjVal))
                /\ result' = ReturnTeam(Team(m.x))
           ELSE /\ printed' = printed
                /\ result' = None
    /\ opc' = "return"
    /\ UNCHANGED <<inputVars, cuts, sol_num, all_teams_found, parseVars, metaVars>>

\* team_build_for.py: one pass of the loop: search, and on a solution
\* append the team and add its cut; otherwise leave the loop and return.
ForRound ==
    /\ script = "for"
    /\ opc = "loop"
    /\ sol_num < num_solutions_to_find
    /\ \E m \in Optimize :
        /\ solves' = Append(solves, m)
        /\ IF m.SolCount > 0
           THEN /\ printed' = Append(printed, Printed(m.status, Team(m.x), m.ObjVal))
                /\ all_teams_found' = Append(all_teams_found, Team(m.x))
                /\ cuts' = cuts \cup {Team(m.x)}
                /\ sol_num' = sol_num + 1
                /\ UNCHANGED <<result, opc>>
           ELSE /\ result' = ReturnList(all_teams_found)
                /\ opc' = "return"
                /\ UNCHANGED <<printed, all_teams_found, cuts, sol_num>>
    /\ UNCHANGED <<inputVars, parseVars, metaVars>>

\* team_build_for.py: the loop has run num_solutions_to_find times.
ForReturn ==
    /\ script = "for"
    /\ opc = "loop"
    /\ sol_num = num_solutions_to_find
    /\ result' = ReturnList(all_teams_found)
    /\ opc' = "return"
    /\ UNCHANGED <<inputVars, cuts, sol_num, all_teams_found, solves, printed,
                   parseVars, metaVars>>

PoolSolutions == 5

RECURSIVE SeqsOf(_, _)
\* The sequences of distinct elements of S of length at most n.
SeqsOf(S, n) ==
    IF n = 0 THEN {<<>>}
    ELSE LET shorter == SeqsOf(S, n - 1)
         IN  shorter \cup {Append(q, e) : q \in {t \in shorter : Len(t) = n - 1}, e \in S}

Distinct(q) == \A a \in 1..Len(q), b \in 1..Len(q) : a # b => q[a] # q[b]

\* The solution pool after the search (PoolSearchMode 2): distinct
\* solutions, best first; the PoolSolutions best ones when the search
\* ended with a proof.
Pools(status) ==
    {q \in SeqsOf(Feasible, PoolSolutions) :
        /\ Distinct(q)
        /\ \A a \in 1..Len(q) : a < Len(q) => ObjVal(q[a]) >= ObjVal(q[a + 1])
        /\ status = "OPTIMAL" =>
            /\ Len(q) = IF Cardinality(Feasible) < PoolSolutions
                        THEN Cardinality(Feasible) ELSE PoolSolutions
            /\ \A a \in 1..Len(q) : \A other \in Feasible :
                    (\A b \in 1..Len(q) : q[b] # other) => ObjVal(q[a]) >= ObjVal(other)
        /\ status = "INFEASIBLE" => Len(q) = 0}

PoolStatus ==
    {"TIME_LIMIT"} \cup (IF Feasible = {} THEN {"INFEASIBLE"} ELSE {"OPTIMAL"})

\* team_build_pool.py: the search (run twice), then every solution of the
\* pool is printed; nothing but None is returned.
OptimizePool ==
    /\ script = "pool"
    /\ opc = "call"
    /\ \E status \in PoolStatus : \E pool \in Pools(status) :
        LET m == Solve(status, Len(pool), IF Len(pool) > 0 THEN pool[1] ELSE NoX)
        IN  /\ solves' = solves \o <<m, m>>
            /\ printed' = [n \in 1..Len(pool) |->
                            Printed(status, Team(pool[n]), ObjVal(pool[n]))]
    /\ result' = None
    /\ opc' = "return"
    /\ UNCHANGED <<inputVars, cuts, sol_num, all_teams_found, parseVars, metaVars>>

----------------------------------------------------------------------------
(* Specifications *)

ParseIdle == value = NaNCell /\ parsed = NoValue /\ ppc = "idle"
MetaIdle == df = <<>> /\ all_matchups_data = <<>> /\ meta_scores = <<>> /\ mpc = "idle"

\* The matchup scores of the CSV: antisymmetric, as main.py writes them.
UpperScores == {0 - 2, 0, 1}

Before(i, j) ==
    \/ i = "Oshawott" /\ j # "Oshawott"
    \/ i = "Snivy" /\ j = "Purrloin"

ScoreTables ==
    {t \in [{p \in pokemon_list \X pokemon_list : p[1] # p[2]} -> {0 - 2, 0 - 1, 0, 1, 2}] :
        \A p \in DOMAIN t :
            /\ t[p] = 0 - t[<<p[2], p[1]>>]
            /\ Before(p[1], p[2]) => t[p] \in UpperScores}

OptIdle ==
    /\ script = "none"
    /\ scores = <<>>
    /\ team_size = 0
    /\ num_solutions_to_find = 0
    /\ no_names = {}
    /\ yes_names = {}
    /\ cuts = {}
    /\ sol_num = 0
    /\ all_teams_found = <<>>
    /\ solves = <<>>
    /\ printed = <<>>
    /\ result = NotReturned
    /\ opc = "idle"

InitParse ==
    /\ value \in RawValues
    /\ parsed = NoValue
    /\ ppc = "call"
    /\ MetaIdle
    /\ OptIdle

NextParse == ParseNumber

SpecParse == InitParse /\ [][NextParse]_vars

InitMeta ==
    /\ df \in {t \in [Index -> Rows] : t[0].name = "A" /\ t[1].name = "B"}
    /\ all_matchups_data = <<>>
    /\ meta_scores = <<>>
    /\ mpc = "call"
    /\ ParseIdle
    /\ OptIdle

NextMeta == RankPokemonMeta

SpecMeta == InitMeta /\ [][NextMeta]_vars

InitOpt ==
    /\ script \in {"team", "pool", "for"}
    /\ scores \in ScoreTables
    /\ team_size \in (0 - 1)..MaxTeamSize
    /\ num_solutions_to_find \in
            IF script = "for" THEN 0..MaxSolutions ELSE {0}
    /\ no_names \in SUBSET pokemon_list
    /\ yes_names \in SUBSET pokemon_list
    /\ cuts = {}
    /\ sol_num = 0
    /\ all_teams_found = <<>>
    /\ solves = <<>>
    /\ printed = <<>>
    /\ result = NotReturned
    /\ opc = IF script = "for" THEN "loop" ELSE "call"
    /\ ParseIdle
    /\ MetaIdle

NextOpt == OptimizeTeam \/ OptimizePool \/ ForRound \/ ForReturn

SpecOpt == InitOpt /\ [][NextOpt]_vars

----------------------------------------------------------------------------
(* What a cell denotes, stated on the text and not by scanning it *)

IsSep(c) == c \in {",", "."}

Unsigned(s) == IF Len(s) > 0 /\ s[1] = "-" THEN Tail(s) ELSE s

Sign(s) == IF Len(s) > 0 /\ s[1] = "-" THEN 0 - 1 ELSE 1

IsDecimal(b) ==
    /\ \A i \in 1..Len(b) : IsDigit(b[i]) \/ IsSep(b[i])
    /\ Cardinality({i \in 1..Len(b) : IsSep(b[i])}) <= 1
    /\ \E i \in 1..Len(b) : IsDigit(b[i])

IsInfinity(b) == b = <<"i", "n", "f">>

DecimalValue(b) ==
    LET p == IF \E i \in 1..Len(b) : IsSep(b[i])
             THEN CHOOSE i \in 1..Len(b) : IsSep(b[i])
             ELSE Len(b) + 1
        w == [i \in 1..Len(b) |->
                IF i < p THEN DigitVal(b[i]) * Pow10(p - 1 - i) * Scale
                ELSE IF i > p THEN (DigitVal(b[i]) * Scale) \div Pow10(i - p)
                ELSE 0]
    IN  SumOver(1..Len(b), w)

\* The cell is a number, or a text that reads as a number.
Denotes(val) ==
    \/ val.kind = "num"
    \/ val.kind = "str" /\ (IsDecimal(Unsigned(val.s)) \/ IsInfinity(Unsigned(val.s)))

Denoted(val) ==
    IF val.kind = "num" THEN val.v
    ELSE IF IsInfinity(Unsigned(val.s)) THEN Sign(val.s) * PosInf
    ELSE Sign(val.s) * DecimalValue(Unsigned(val.s))

----------------------------------------------------------------------------
(* The scorer as section 4.2 words it *)

Attrs(row) == {row.type1} \cup (IF pd_notna(row.type2) THEN {row.type2} ELSE {})

\* The multipliers the defender's profile gives the attacker's attributes,
\* an absent secondary attribute counting as 1.0.
Multipliers(attacker, defender) ==
    {parse_number(get(defender.profile, t)) : t \in Attrs(attacker)}
        \cup (IF pd_notna(attacker.type2) THEN {} ELSE {One})

Classify(m) == IF m >= Two THEN 1 ELSE IF m <= Half THEN 0 - 1 ELSE 0

OffensiveTerm(attacker, defender) == Classify(MaxOf(Multipliers(attacker, defender)))

DefensiveTerm(attacker, defender) == 0 - Classify(MaxOf(Multipliers(defender, attacker)))

Returned == mpc = "return"

----------------------------------------------------------------------------
(* Claims *)

\* C2 as stated: the matrix has no antisymmetry guarantee, that is, some
\* candidates A # B (some attributes and profiles) have
\* score(A,B) # -score(B,A).
C2_SomePairNotMirrored ==
    Returned =>
        \E row_A \in Rows, row_B \in Rows :
            /\ row_A.name # row_B.name
            /\ individual_score(row_A, row_B) # 0 - individual_score(row_B, row_A)

\* C2 amended: the built matrix is antisymmetric, score(A,B) = -score(B,A)
\* for every pair of distinct candidates.
C2_Antisymmetric ==
    Returned =>
        \A p \in Pairs :
            all_matchups_data[p] = 0 - all_matchups_data[<<p[2], p[1]>>]

C2_Witness ==
    /\ Returned
    /\ all_matchups_data[<<0, 1>>] = 1
    /\ all_matchups_data[<<1, 0>>] = 0 - 1
    /\ offensive_points(df[0], df[1]) = 0

\* C7 as stated: parse_number returns a finite value >= 0, which is 1.0
\* unless the input reads as a finite non-negative number.
C7_FiniteNonNegative ==
    ppc = "return" =>
        /\ IsFinite(parsed)
        /\ parsed >= 0
        /\ parsed = IF Denotes(value) /\ IsFinite(Denoted(value)) /\ Denoted(value) >= 0
                    THEN Denoted(value) ELSE One

\* C7 amended: parse_number returns 1.0 when the input is missing, empty
\* or does not read as a number (comma or dot as decimal separator), and
\* the number it reads as otherwise, negative and infinite ones included.
C7_ParsedOrNeutral ==
    ppc = "return" =>
        parsed = IF Denotes(value) THEN Denoted(value) ELSE One

C7_Witness ==
    /\ ppc = "return"
    /\ value = StrCell(<<"-", ",", "5">>)
    /\ parsed = 0 - Half

\* C8: every matrix entry is offensive term + defensive term, each the
\* classification of the maximum multiplier with an absent secondary
\* attribute counted as 1.0.
C8_ScoreIsOffensePlusDefense ==
    Returned =>
        \A p \in Pairs :
            all_matchups_data[p] =
                OffensiveTerm(df[p[1]], df[p[2]]) + DefensiveTerm(df[p[1]], df[p[2]])

C8_Witness ==
    /\ Returned
    /\ df[0].type2 = NaNType
    /\ parse_number(get(df[1].profile, df[0].type1)) <= Half
    /\ df[1].type2 # NaNType
    /\ all_matchups_data[<<0, 1>>] = 1

\* C9: every entry of the built matrix is one of -2, -1, 0, 1, 2, also
\* when multiplier cells are missing or malformed.
C9_ScoreInRange ==
    Returned =>
        \A p \in Pairs : all_matchups_data[p] \in {0 - 2, 0 - 1, 0, 1, 2}

C9_Witness ==
    /\ Returned
    /\ all_matchups_data[<<0, 1>>] = 2
    /\ all_matchups_data[<<1, 0>>] = 0 - 2
    /\ \E t \in type_columns : df[0].profile[t] = StrCell(<<"f">>)
    /\ \E t \in type_columns : df[1].profile[t] = NaNCell

----------------------------------------------------------------------------
(* Claims about the optimizers *)

\* The objective of section 4.4: the self-pair left out of the inner
\* maximum, an opponent nobody on the team can face counted as the sentinel.
ObjectiveWithoutSelf(team) ==
    SumOver(pokemon_list, [j \in pokemon_list |->
        IF team \ {j} = {} THEN M_NEG
        ELSE MaxOf({scores[<<i, j>>] : i \in team \ {j}})])

\* The objective with the self-pair counted as a matchup of score 0.
ObjectiveWithSelfAsZero(team) ==
    SumOver(pokemon_list, [j \in pokemon_list |->
        IF team = {} THEN M_NEG
        ELSE IF j \in team THEN MaxOf({0} \cup {scores[<<i, j>>] : i \in team \ {j}})
        ELSE MaxOf({scores[<<i, j>>] : i \in team})])

Searching == script \in {"team", "for"}

\* C1 as stated: the reported objective of every returned team is the sum
\* over all candidates j of the maximum of matrix[i][j] over the members
\* i # j, the sentinel when the team is {j}.
C1_ObjectiveExcludesSelf ==
    Searching =>
        \A n \in 1..Len(printed) :
            printed[n].score = ObjectiveWithoutSelf(printed[n].team)

\* C1 amended: the reported objective is the sum over all candidates j of
\* the maximum over the members i, where a member facing itself counts as
\* score 0; only the empty team gets the sentinel.
C1_ObjectiveCountsSelfAsZero ==
    Searching =>
        \A n \in 1..Len(printed) :
            printed[n].score = ObjectiveWithSelfAsZero(printed[n].team)

C1_Witness ==
    /\ script = "team"
    /\ opc = "return"
    /\ Len(printed) = 1
    /\ \E j \in pokemon_list :
        /\ printed[1].team = {j}
        /\ result = ReturnTeam({j})
        /\ printed[1].score = SumOver(pokemon_list \ {j},
                                      [o \in pokemon_list \ {j} |-> scores[<<j, o>>]])

Satisfies(team) ==
    /\ Cardinality(team) = team_size
    /\ yes_names \subseteq team
    /\ no_names \cap team = {}

\* C3: every team the three optimizers give out has exactly team_size
\* members, holds every forced-in name and no forced-out name, in every
\* round of the iterative one.
C3_TeamsRespectConstraints ==
    /\ \A n \in 1..Len(printed) : Satisfies(printed[n].team)
    /\ \A n \in 1..Len(all_teams_found) : Satisfies(all_teams_found[n])
    /\ result.kind = "team" => Satisfies(result.team)
    /\ \A n \in 1..Len(result.teams) : Satisfies(result.teams[n])

C3_Witness ==
    /\ script = "for"
    /\ opc = "return"
    /\ Len(result.teams) >= 2
    /\ no_names # {}
    /\ cuts # {}

\* C4: the teams of the iterative optimizer are pairwise different, and
\* every team found so far is under a cut.
C4_TeamsDistinct ==
    /\ \A a \in 1..Len(all_teams_found), b \in 1..Len(all_teams_found) :
            a # b => all_teams_found[a] # all_teams_found[b]
    /\ \A n \in 1..Len(all_teams_found) : all_teams_found[n] \in cuts

C4_Witness ==
    /\ script = "for"
    /\ opc = "return"
    /\ Len(result.teams) = 3
    /\ Cardinality(cuts) = 3

\* C5: the iterative optimizer returns at most num_solutions_to_find
\* teams, and fewer only when no team satisfies the constraints and cuts.
C5_ShortOnlyWhenInfeasible ==
    (script = "for" /\ opc = "return") =>
        /\ Len(result.teams) <= num_solutions_to_find
        /\ Len(result.teams) < num_solutions_to_find => Feasible = {}

\* The teams that satisfied the constraints and the cuts in round n.
FeasibleInRound(n) ==
    {x \in SUBSET pokemon_list :
        /\ Satisfies(x)
        /\ \A earlier \in 1..(n - 1) : all_teams_found[earlier] # x}

\* C6: a team reported as proven optimal has an objective no smaller than
\* that of any team satisfying the constraints, and a team returned at the
\* time limit is the incumbent and is reported as time-limited.
C6_StatusSound ==
    Searching =>
        \A n \in 1..Len(printed) :
            /\ printed[n].report = "PROVEN_OPTIMAL" =>
                    \A other \in (IF script = "for" THEN FeasibleInRound(n)
                                  ELSE FeasibleInRound(1)) :
                        printed[n].score >= ObjVal(other)
            /\ solves[n].status = "TIME_LIMIT" =>
                    /\ printed[n].report = "TIME_LIMITED_BEST"
                    /\ printed[n].team = solves[n].x

C6_Witness ==
    /\ script = "team"
    /\ opc = "return"
    /\ Len(printed) = 1
    /\ printed[1].report = "TIME_LIMITED_BEST"
    /\ result = ReturnTeam(solves[1].x)
    /\ \E other \in FeasibleInRound(1) : ObjVal(other) > printed[1].score

\* The constraint sets section 3 rules out, k = 0 apart.
Unsatisfiable ==
    \/ yes_names \cap no_names # {}
    \/ Cardinality(yes_names) > team_size
    \/ team_size < 0
    \/ team_size > Cardinality(pokemon_list)
    \/ Cardinality(pokemon_list \ no_names) < team_size

InvalidConstraints == Unsatisfiable \/ team_size = 0

\* C10 as stated: with an invalid constraint set the optimizer fails with
\* an error before any search runs.
C10_FailsBeforeSearch ==
    (script = "team" /\ opc = "return" /\ InvalidConstraints) =>
        /\ Len(solves) = 0
        /\ result.kind = "error"

\* C10 amended: the optimizer always runs the search and never fails with
\* an error; with an unsatisfiable constraint set the search has no
\* solution and None (the iterative optimizer: the empty list) is
\* returned, and team_size = 0 with nothing forced in gives the empty team.
C10_SearchesAndReturnsNone ==
    /\ (script = "team" /\ opc = "return") =>
        /\ Len(solves) = 1
        /\ result.kind \in {"team", "None"}
        /\ Unsatisfiable => result = None
        /\ (team_size = 0 /\ yes_names = {} /\ solves[1].SolCount > 0) =>
                result = ReturnTeam({})
    /\ (script = "for" /\ opc = "return" /\ num_solutions_to_find > 0) =>
        /\ Len(solves) >= 1
        /\ result.kind = "list"
        /\ Unsatisfiable => (Len(solves) = 1 /\ result = ReturnList(<<>>))

C10_Witness ==
    /\ script = "team"
    /\ opc = "return"
    /\ team_size \in 1..Cardinality(pokemon_list)
    /\ yes_names \cap no_names # {}
    /\ Len(solves) = 1
    /\ result = None

\* C11 as stated: in the iterative optimizer the objective of a round's
\* team is never greater than that of the round before, whatever the
\* status of either round.
C11_ObjectiveNeverRises ==
    script = "for" =>
        \A n \in 1..(Len(printed) - 1) : printed[n + 1].score <= printed[n].score

\* C11 amended: the objective of a round's team is not greater than that
\* of the round before when the round before ended proven optimal; after
\* a time-limited round the next team may score higher.
C11_NoRiseAfterProvenOptimal ==
    script = "for" =>
        \A n \in 1..(Len(printed) - 1) :
            printed[n].report = "PROVEN_OPTIMAL" =>
                printed[n + 1].score <= printed[n].score

C11_Witness ==
    /\ script = "for"
    /\ opc = "return"
    /\ Len(printed) >= 2
    /\ printed[1].report = "PROVEN_OPTIMAL"
    /\ printed[2].report = "TIME_LIMITED_BEST"
    /\ printed[2].score < printed[1].score

SingleType(row) == ~pd_notna(row.type2)

\* C12: an attacker with one attribute never gets the offensive penalty,
\* an attacker facing a defender with one attribute never gets the
\* defensive bonus, and the entry of two single-attribute candidates is
\* one of -1, 0, 1.
C12_SingleTypeTerms ==
    Returned =>
        \A p \in Pairs :
            LET row_A == df[p[1]]
                row_B == df[p[2]]
            IN  /\ SingleType(row_A) => offensive_points(row_A, row_B) \in {0, 1}
                /\ SingleType(row_B) => defensive_points(row_A, row_B) \in {0 - 1, 0}
                /\ (SingleType(row_A) /\ SingleType(row_B)) =>
                        all_matchups_data[p] \in {0 - 1, 0, 1}

C12_Witness ==
    /\ Returned
    /\ SingleType(df[0])
    /\ SingleType(df[1])
    /\ parse_number(get(df[1].profile, df[0].type1)) <= Half
    /\ parse_number(get(df[0].profile, df[1].type1)) >= Two
    /\ all_matchups_data[<<0, 1>>] = 0 - 1
    /\ all_matchups_data[<<1, 0>>] = 1

====
